---- MODULE Spec2Model ----
(***************************************************************************)
(* The three completion endpoints of src/app.py (send_api, validate_theme, *)
(* end_debate) as a state machine.  Every request owns a frame (its body,   *)
(* its local `messages`, the list handed to the backend, the backend's      *)
(* answer and the response); the only module-level state is `client`.      *)
(* A handler is split at its one blocking point, the call                   *)
(* client.chat.completions.create: <endpoint>_validate runs the code up to  *)
(* the call, create is the call itself, <endpoint>_respond is the code      *)
(* after it (the reply handling and the except clauses).                    *)
(*                                                                         *)
(* Text is a sequence of characters so that str.strip() is computed.       *)
(* Python's None and a missing dictionary key are the one-element           *)
(* sequences None and Absent, which no text over Alphabet equals.           *)
(***************************************************************************)
EXTENDS Integers, Sequences, FiniteSets, TLC

\* ---------------------------------------------------------------- bounds
\* Longest 'messages' array of a request body.
MaxLen == 3
\* Longest text (request 'text'/'context'/'theme', backend reply content).
MaxStr == 2
\* Cap on the completion calls of one request (the code makes one; the cap
\* only keeps a retrying variant of the handlers finite).
MaxCalls == 2

\* ---------------------------------------------------------------- values
Reqs == {1, 2}

Whitespace == {" "}
Alphabet == {" ", "a"}

None == <<"None">>
Absent == <<"Absent">>

RECURSIVE SeqsUpTo(_, _)
SeqsUpTo(S, n) ==
    IF n = 0 THEN {<<>>}
    ELSE LET shorter == SeqsUpTo(S, n - 1)
         IN  shorter \cup {Append(s, x) : s \in {t \in shorter : Len(t) = n - 1}, x \in S}

Text == SeqsUpTo(Alphabet, MaxStr)

\* str.lstrip / str.rstrip / str.strip on the default whitespace set.
RECURSIVE LStrip(_)
LStrip(s) ==
    IF s = <<>> THEN s
    ELSE IF Head(s) \in Whitespace THEN LStrip(Tail(s)) ELSE s

RECURSIVE RStrip(_)
RStrip(s) ==
    IF s = <<>> THEN s
    ELSE IF s[Len(s)] \in Whitespace THEN RStrip(SubSeq(s, 1, Len(s) - 1)) ELSE s

Strip(s) == RStrip(LStrip(s))

\* Python truthiness of an optional string: None and "" are falsy.
Truthy(s) == s # None /\ s # Absent /\ s # <<>>

\* ------------------------------------------------------------- constants
DEFAULT_SYSTEM_PROMPT == <<"DEFAULT_SYSTEM_PROMPT">>
\* "AIから有効な応答がありませんでした。"
NO_VALID_RESPONSE == <<"No valid response from the AI.">>
\* "AIによってデータが処理されました。"
PROCESSED_MESSAGE == <<"The data was processed by the AI.">>
\* "AIからのフィードバックがありませんでした。..."
DEFAULT_FEEDBACK == <<"There was no feedback from the AI.">>
validation_system_prompt == <<"validation_system_prompt">>
\* The two feedback prompts of end_debate: the short one for fewer than three
\* user messages, the detailed one otherwise.
feedback_prompt_short == <<"feedback_system_prompt (short conversation)">>
feedback_prompt_detailed == <<"feedback_system_prompt (detailed feedback)">>

\* e.status_code of an APIError that carries no status.
NoStatus == -1
StatusCodes == {NoStatus, 429, 503}
\* The exception's own text, str(e): backend-internal detail.
ErrorTexts == {"internal detail 1", "internal detail 2"}

\* ---------------------------------------------------------------- messages
\* One element of a 'messages' array: a JSON object with or without the keys
\* 'role' and 'content', or a JSON number (kind "number").
Msg(role, content) == [kind |-> "object", role |-> role, content |-> content]
NumberMsg == [kind |-> "number", role |-> "Absent", content |-> Absent]

ValidMsgs ==
    { Msg("system", <<"a">>), Msg("user", <<"a">>), Msg("user", <<"a", "a">>),
      Msg("assistant", <<"a">>) }
InvalidMsgs == { Msg("Absent", <<"a">>), Msg("user", Absent), NumberMsg }
Msgs == ValidMsgs \cup InvalidMsgs

Histories == SeqsUpTo(Msgs, MaxLen)

\* `k in msg` for a JSON object.
HasKey(msg, k) ==
    IF k = "role" THEN msg.role # "Absent" ELSE msg.content # Absent

\* ----------------------------------------------------------- request bodies
\* request.get_json(): None ("null"), a JSON number, or a JSON object whose
\* keys 'messages', 'text', 'context', 'theme' may be absent; `extra` says the
\* object holds some other key.  'messages' is absent, a list, or a scalar.
Body(kind, mk, ms, text, context, theme, extra) ==
    [kind |-> kind, messages_kind |-> mk, messages |-> ms, text |-> text,
     context |-> context, theme |-> theme, extra |-> extra]

NullBody == Body("null", "absent", <<>>, Absent, Absent, Absent, FALSE)
NumberBody == Body("number", "absent", <<>>, Absent, Absent, Absent, FALSE)
EmptyBody == Body("object", "absent", <<>>, Absent, Absent, Absent, FALSE)

TextOpt == Text \cup {Absent}
ContextOpt == {Absent, <<" ">>, <<"a">>}

SendApiBodies ==
    {NullBody, NumberBody}
    \cup {Body("object", "list", h, t, Absent, Absent, FALSE) :
            h \in Histories, t \in {Absent, <<>>}}
    \cup {Body("object", mk, <<>>, t, c, Absent, x) :
            mk \in {"absent", "scalar"}, t \in TextOpt, c \in ContextOpt,
            x \in BOOLEAN}

ThemeBodies ==
    {NullBody, NumberBody}
    \cup {Body("object", "absent", <<>>, Absent, Absent, t, x) :
            t \in TextOpt, x \in BOOLEAN}

DebateBodies ==
    {NullBody, NumberBody}
    \cup {Body("object", "list", h, Absent, Absent, Absent, FALSE) : h \in Histories}
    \cup {Body("object", mk, <<>>, Absent, Absent, Absent, x) :
            mk \in {"absent", "scalar"}, x \in BOOLEAN}

\* `not data`: None and the empty object are falsy.
Falsy(data) ==
    \/ data.kind = "null"
    \/ /\ data.kind = "object"
       /\ data.messages_kind = "absent"
       /\ data.text = Absent /\ data.context = Absent /\ data.theme = Absent
       /\ ~data.extra

Request(ep, data) == [endpoint |-> ep, data |-> data]
Idle == Request("none", NullBody)

\* ----------------------------------------------------------- backend answers
\* What client.chat.completions.create does: it returns a reply object
\* (choices empty, choices[0].message None, or a message whose content is None
\* or a text), or raises APIError (with or without a status code) or another
\* exception.  `json` says what re.search/json.loads of validate_theme find in
\* the content: no JSON, a malformed JSON text, a valid one.
Answer(kind, choices, content, json, sc, text) ==
    [kind |-> kind, choices |-> choices, content |-> content, json |-> json,
     status_code |-> sc, text |-> text]

NoAnswer == Answer("none", "empty", None, "none", NoStatus, "")

Replies ==
    {Answer("reply", "empty", None, "none", NoStatus, ""),
     Answer("reply", "no_message", None, "none", NoStatus, "")}
    \cup {Answer("reply", "message", c, "none", NoStatus, "") : c \in Text \cup {None}}

JsonReplies ==
    {Answer("reply", "message", <<"a">>, j, NoStatus, "") : j \in {"malformed", "valid"}}

Failures ==
    {Answer("APIError", "empty", None, "none", sc, t) : sc \in StatusCodes, t \in ErrorTexts}
    \cup {Answer("Exception", "empty", None, "none", NoStatus, t) : t \in ErrorTexts}

Answers(ep) ==
    IF ep = "validate_theme" THEN Replies \cup JsonReplies \cup Failures
    ELSE Replies \cup Failures

\* The condition of lines 105 and 241: choices, choices[0].message and
\* choices[0].message.content are all truthy.
HasContent(ans) == ans.choices = "message" /\ Truthy(ans.content)

\* ---------------------------------------------------------------- responses
\* A response is a status and a JSON body.  An error text is the list of the
\* parts of its (f-)string: literals and interpolated values.
Response(status, error, message, processed_text, feedback, json) ==
    [status |-> status, error |-> error, message |-> message,
     processed_text |-> processed_text, feedback |-> feedback, json |-> json]

NoResponse == Response(0, <<>>, Absent, Absent, Absent, "none")

Error(status, parts) == Response(status, parts, Absent, Absent, Absent, "none")

\* Flask's answer to an exception no handler catches.
Unhandled == Error(500, <<"Internal Server Error">>)

NotConfigured == Error(500, <<"OpenRouter API key is not configured on the server.">>)

\* str(e.status_code) in the f-strings of lines 114 and 256.
Str(sc) == IF sc = NoStatus THEN "None" ELSE ToString(sc)

\* Mutant of StatusOr500: the status of the APIError is dropped.
StatusAlways500(sc) == 500

\* `e.status_code or 500`
StatusOr500(sc) == IF sc = NoStatus \/ sc = 0 THEN 500 ELSE sc

\* ------------------------------------------------------------------- state
VARIABLES
    client,     \* module-level: TRUE when OPENROUTER_API_KEY built a client
    request,    \* per request: its endpoint and body
    pc,         \* per request: "idle", "start", "call", "answered", "done"
    messages,   \* per request: the handler's local message list
    sent,       \* per request: the `messages=` argument of the last create call
    calls,      \* per request: completion calls made so far
    answer,     \* per request: what the last create call returned or raised
    response    \* per request: the response returned to the caller

vars == <<client, request, pc, messages, sent, calls, answer, response>>

\* All requests a caller can post, per endpoint.
RichRequests ==
    {Request("send_api", d) : d \in SendApiBodies}
    \cup {Request("validate_theme", d) : d \in ThemeBodies}
    \cup {Request("end_debate", d) : d \in DebateBodies}

Frames(req) ==
    /\ request = req
    /\ pc = [r \in Reqs |-> IF req[r] = Idle THEN "idle" ELSE "start"]
    /\ messages = [r \in Reqs |-> <<>>]
    /\ sent = [r \in Reqs |-> <<>>]
    /\ calls = [r \in Reqs |-> 0]
    /\ answer = [r \in Reqs |-> NoAnswer]
    /\ response = [r \in Reqs |-> NoResponse]

\* One request in flight, any body.
Init ==
    /\ client \in BOOLEAN
    /\ \E q \in RichRequests : Frames([r \in Reqs |-> IF r = 1 THEN q ELSE Idle])

\* Mutant of AssignMessages: `messages` is one module-level list, so the
\* assignment of one request is seen by every request.
AssignMessagesGlobal(r, ms) == messages' = [q \in Reqs |-> ms]

\* `messages = ...`: an assignment to the handler's local variable.
AssignMessages(r, ms) == messages' = [messages EXCEPT ![r] = ms]

\* Mutant of Return: a failed completion call is issued again instead of
\* being answered.
ReturnRetryOnFailure(r, resp) ==
    IF pc[r] = "answered" /\ answer[r].kind # "reply" /\ calls[r] < MaxCalls
    THEN /\ pc' = [pc EXCEPT ![r] = "call"]
         /\ UNCHANGED response
    ELSE /\ response' = [response EXCEPT ![r] = resp]
         /\ pc' = [pc EXCEPT ![r] = "done"]

\* `return jsonify(...), status`: the handler ends with this response.
Return(r, resp) ==
    /\ response' = [response EXCEPT ![r] = resp]
    /\ pc' = [pc EXCEPT ![r] = "done"]

\* ----------------------------------------------------------------- send_api
\* Mutant of FirstBad: the loop checks the key 'role' only.
RECURSIVE FirstBadRoleOnly(_, _)
FirstBadRoleOnly(ms, i) ==
    IF i > Len(ms) THEN 0
    ELSE IF ms[i].kind = "number" \/ ~HasKey(ms[i], "role")
         THEN i
         ELSE FirstBadRoleOnly(ms, i + 1)

\* The first message of the list that stops the validation loop of lines
\* 74-76 (a JSON number makes `k in msg` raise TypeError; an object without
\* one of the keys returns 400), or 0 when every message passes.
RECURSIVE FirstBad(_, _)
FirstBad(ms, i) ==
    IF i > Len(ms) THEN 0
    ELSE IF ms[i].kind = "number" \/ ~HasKey(ms[i], "role") \/ ~HasKey(ms[i], "content")
         THEN i
         ELSE FirstBad(ms, i + 1)

\* Lines 85-90: the conversation the legacy form builds.
LegacyMessages(data) ==
    LET context == Strip(IF data.context = Absent THEN <<>> ELSE data.context)
        system_prompt == IF Truthy(context) THEN context ELSE DEFAULT_SYSTEM_PROMPT
    IN  << Msg("system", system_prompt), Msg("user", Strip(data.text)) >>

\* Lines 57-94: the response that ends the request before any call, or
\* NoResponse when the handler goes on to the call.
SendApiRejection(cl, data) ==
    IF ~cl THEN NotConfigured
    ELSE IF Falsy(data) THEN Error(400, <<"Request JSON is missing">>)
    ELSE IF data.kind = "number" THEN Unhandled
    ELSE IF data.messages_kind = "list" THEN
        IF data.messages = <<>> THEN Error(400, <<"'messages' array cannot be empty">>)
        ELSE LET i == FirstBad(data.messages, 1)
             IN  IF i = 0 THEN NoResponse
                 ELSE IF data.messages[i].kind = "number" THEN Unhandled
                 ELSE Error(400, <<"Each message must have 'role' and 'content'">>)
    ELSE IF data.text # Absent THEN
        IF Strip(data.text) = <<>> THEN Error(400, <<"Input text cannot be empty">>)
        ELSE NoResponse
    ELSE Error(400, <<"Request must contain either 'messages' array or 'text' field">>)

\* Lines 66-90: the local `messages` at the call.
SendApiMessages(data) ==
    IF data.messages_kind = "list" THEN data.messages ELSE LegacyMessages(data)

send_api_validate(r) ==
    /\ pc[r] = "start"
    /\ request[r].endpoint = "send_api"
    /\ LET rejection == SendApiRejection(client, request[r].data)
       IN  IF rejection # NoResponse
           THEN /\ Return(r, rejection)
                /\ UNCHANGED messages
           ELSE /\ AssignMessages(r, SendApiMessages(request[r].data))
                /\ pc' = [pc EXCEPT ![r] = "call"]
                /\ UNCHANGED response
    /\ UNCHANGED <<client, request, sent, calls, answer>>

\* Lines 98-101, 157-160, 233-236: client.chat.completions.create(messages=...).
create(r) ==
    /\ pc[r] = "call"
    /\ calls[r] < MaxCalls
    /\ calls' = [calls EXCEPT ![r] = calls[r] + 1]
    /\ sent' = [sent EXCEPT ![r] = messages[r]]
    /\ \E a \in Answers(request[r].endpoint) : answer' = [answer EXCEPT ![r] = a]
    /\ pc' = [pc EXCEPT ![r] = "answered"]
    /\ UNCHANGED <<client, request, messages, response>>

\* Lines 105-110: the success body of send_api.
SendApiSuccess(ans) ==
    Response(200, <<>>, PROCESSED_MESSAGE,
             IF HasContent(ans) THEN Strip(ans.content) ELSE NO_VALID_RESPONSE,
             Absent, "none")

\* Mutant of SendApiAPIError: the exception's text is interpolated too.
SendApiAPIErrorLeaking(e) ==
    Error(StatusOr500(e.status_code),
          <<"An error occurred in the AI service. Status code: ", Str(e.status_code), e.text>>)

\* Line 114: the body and status for an APIError.
SendApiAPIError(e) ==
    Error(StatusOr500(e.status_code),
          <<"An error occurred in the AI service. Status code: ", Str(e.status_code)>>)

\* Line 118: the body and status for any other exception.
SendApiException(e) ==
    Error(500, <<"An error occurred while communicating with the AI service.">>)

\* Mutant of send_api_respond: the reply is appended to the message list as
\* an assistant message.
send_api_respond_appending(r) ==
    /\ pc[r] = "answered"
    /\ request[r].endpoint = "send_api"
    /\ LET resp == CASE answer[r].kind = "reply" -> SendApiSuccess(answer[r])
                     [] answer[r].kind = "APIError" -> SendApiAPIError(answer[r])
                     [] OTHER -> SendApiException(answer[r])
       IN  /\ Return(r, resp)
           /\ messages' = [messages EXCEPT ![r] =
                  IF resp.status = 200
                  THEN Append(messages[r], Msg("assistant", resp.processed_text))
                  ELSE messages[r]]
    /\ UNCHANGED <<client, request, sent, calls, answer>>

send_api_respond(r) ==
    /\ pc[r] = "answered"
    /\ request[r].endpoint = "send_api"
    /\ Return(r, CASE answer[r].kind = "reply" -> SendApiSuccess(answer[r])
                   [] answer[r].kind = "APIError" -> SendApiAPIError(answer[r])
                   [] OTHER -> SendApiException(answer[r]))
    /\ UNCHANGED <<client, request, messages, sent, calls, answer>>

\* ----------------------------------------------------------- validate_theme
\* Lines 124-134.
ValidateThemeRejection(cl, data) ==
    IF ~cl THEN NotConfigured
    ELSE IF Falsy(data) THEN Error(400, <<"Request must contain 'theme'">>)
    ELSE IF data.kind = "number" THEN Unhandled
    ELSE IF data.theme = Absent THEN Error(400, <<"Request must contain 'theme'">>)
    ELSE IF Strip(data.theme) = <<>> THEN Error(400, <<"'theme' cannot be empty">>)
    ELSE NoResponse

\* Lines 150-153.
ValidateThemeMessages(data) ==
    << Msg("system", validation_system_prompt), Msg("user", Strip(data.theme)) >>

validate_theme_validate(r) ==
    /\ pc[r] = "start"
    /\ request[r].endpoint = "validate_theme"
    /\ LET rejection == ValidateThemeRejection(client, request[r].data)
       IN  IF rejection # NoResponse
           THEN /\ Return(r, rejection)
                /\ UNCHANGED messages
           ELSE /\ AssignMessages(r, ValidateThemeMessages(request[r].data))
                /\ pc' = [pc EXCEPT ![r] = "call"]
                /\ UNCHANGED response
    /\ UNCHANGED <<client, request, sent, calls, answer>>

\* Line 182: every exception of the try block, APIError included.
ValidateThemeException(e) ==
    Error(500, <<"An error occurred in the AI service while checking the theme.">>)

\* Lines 162-178: choices[0].message.content raises on a reply without a
\* message and re.search raises on a content of None (both caught at line
\* 180); otherwise the JSON found in the content is returned as the body.
ValidateThemeReply(ans) ==
    IF ans.choices # "message" \/ ans.content = None THEN ValidateThemeException(ans)
    ELSE IF ans.json = "none"
         THEN Error(500, <<"No valid JSON was found in the AI response.">>)
    ELSE IF ans.json = "malformed"
         THEN Error(500, <<"The AI response could not be read as JSON.">>)
    ELSE Response(200, <<>>, Absent, Absent, Absent, "parsed reply")

validate_theme_respond(r) ==
    /\ pc[r] = "answered"
    /\ request[r].endpoint = "validate_theme"
    /\ Return(r, IF answer[r].kind = "reply" THEN ValidateThemeReply(answer[r])
                 ELSE ValidateThemeException(answer[r]))
    /\ UNCHANGED <<client, request, messages, sent, calls, answer>>

\* --------------------------------------------------------------- end_debate
\* Line 196: the number of messages whose role is 'user'.
RECURSIVE UserMessageCount(_)
UserMessageCount(ms) ==
    IF ms = <<>> THEN 0
    ELSE (IF Head(ms).role = "user" THEN 1 ELSE 0) + UserMessageCount(Tail(ms))

\* Lines 187-196: iterating a scalar 'messages' and calling .get on a message
\* that is a number both raise outside the try block.
EndDebateRejection(cl, data) ==
    IF ~cl THEN NotConfigured
    ELSE IF Falsy(data) THEN Error(400, <<"Request must contain 'messages'">>)
    ELSE IF data.kind = "number" THEN Unhandled
    ELSE IF data.messages_kind = "absent" THEN Error(400, <<"Request must contain 'messages'">>)
    ELSE IF data.messages_kind = "scalar" THEN Unhandled
    ELSE IF \E i \in 1..Len(data.messages) : data.messages[i].kind = "number" THEN Unhandled
    ELSE NoResponse

\* Lines 199-219.
FeedbackSystemPrompt(conversation_history) ==
    IF UserMessageCount(conversation_history) < 3
    THEN feedback_prompt_short
    ELSE feedback_prompt_detailed

\* Lines 222-229: messages_for_feedback is assigned twice; the assignment of
\* line 229 replaces the list of line 222 (the prompt followed by the
\* conversation history) by the prompt alone.
EndDebateMessages(data) ==
    LET conversation_history == data.messages
        prompt == Msg("system", FeedbackSystemPrompt(conversation_history))
        line222 == <<prompt>> \o conversation_history
        line229 == <<prompt>>
    IN  line229

end_debate_validate(r) ==
    /\ pc[r] = "start"
    /\ request[r].endpoint = "end_debate"
    /\ LET rejection == EndDebateRejection(client, request[r].data)
       IN  IF rejection # NoResponse
           THEN /\ Return(r, rejection)
                /\ UNCHANGED messages
           ELSE /\ AssignMessages(r, EndDebateMessages(request[r].data))
                /\ pc' = [pc EXCEPT ![r] = "call"]
                /\ UNCHANGED response
    /\ UNCHANGED <<client, request, sent, calls, answer>>

\* Line 256.
EndDebateAPIError(e) ==
    Error(StatusOr500(e.status_code),
          <<"An error occurred in the AI service while generating feedback. Status code: ",
            Str(e.status_code)>>)

\* Line 259.
EndDebateException(e) ==
    Error(500, <<"An unexpected server error occurred while generating feedback.">>)

\* Lines 238-252.  Line 238 reads choices[0].message.content.strip() before
\* the check of line 241: a reply with no choices, no message or a content of
\* None raises there (IndexError, AttributeError) and is caught at line 257.
EndDebateReply(ans) ==
    IF ans.choices # "message" \/ ans.content = None THEN EndDebateException(ans)
    ELSE LET feedback_text == IF HasContent(ans) THEN Strip(ans.content) ELSE <<>>
         IN  Response(200, <<>>, Absent, Absent,
                      IF feedback_text = <<>> THEN DEFAULT_FEEDBACK ELSE feedback_text,
                      "none")

end_debate_respond(r) ==
    /\ pc[r] = "answered"
    /\ request[r].endpoint = "end_debate"
    /\ Return(r, CASE answer[r].kind = "reply" -> EndDebateReply(answer[r])
                   [] answer[r].kind = "APIError" -> EndDebateAPIError(answer[r])
                   [] OTHER -> EndDebateException(answer[r]))
    /\ UNCHANGED <<client, request, messages, sent, calls, answer>>

\* ------------------------------------------------------------ specifications
Next ==
    \E r \in Reqs :
        \/ send_api_validate(r)
        \/ validate_theme_validate(r)
        \/ end_debate_validate(r)
        \/ create(r)
        \/ send_api_respond(r)
        \/ validate_theme_respond(r)
        \/ end_debate_respond(r)

Spec == Init /\ [][Next]_vars

\* Two requests in flight at once, each from a small set of bodies.
PairRequests ==
    {Request("send_api", NullBody),
     Request("send_api", Body("object", "absent", <<>>, <<"a">>, Absent, Absent, FALSE)),
     Request("send_api",
             Body("object", "list", <<Msg("user", <<"a">>)>>, Absent, Absent, Absent, FALSE)),
     Request("validate_theme", Body("object", "absent", <<>>, Absent, Absent, <<"a">>, FALSE)),
     Request("end_debate",
             Body("object", "list", <<Msg("user", <<"a">>)>>, Absent, Absent, Absent, FALSE))}

InitPair ==
    /\ client \in BOOLEAN
    /\ \E q1 \in PairRequests, q2 \in PairRequests :
           Frames([r \in Reqs |-> IF r = 1 THEN q1 ELSE q2])

SpecPair == InitPair /\ [][Next]_vars

\* -------------------------------------------------------------------- claims
Done(r, ep) == pc[r] = "done" /\ request[r].endpoint = ep
Called(r, ep) == calls[r] > 0 /\ request[r].endpoint = ep
Range(f) == {f[i] : i \in DOMAIN f}

\* The Role Adapter as the specification words it (section 4.2): a system
\* message becomes a user message, followed by an empty assistant message
\* unless the next message is an assistant message; the rest is unchanged.
\* src/app.py holds no such function.
RECURSIVE adapt(_)
adapt(h) ==
    IF h = <<>> THEN <<>>
    ELSE IF Head(h).role = "system"
         THEN <<Msg("user", Head(h).content)>>
              \o (IF Len(h) > 1 /\ h[2].role = "assistant"
                  THEN <<>> ELSE <<Msg("assistant", <<>>)>>)
              \o adapt(Tail(h))
         ELSE <<Head(h)>> \o adapt(Tail(h))

\* C1: the list send_api hands to the backend is the Role Adapter's image of
\* the request's history (of the 'messages' array, or of the conversation the
\* legacy form builds), so it holds no message with role system.
C1_RoleAdapterApplied ==
    \A r \in Reqs :
        Called(r, "send_api") =>
            /\ sent[r] = adapt(SendApiMessages(request[r].data))
            /\ \A i \in 1..Len(sent[r]) : sent[r][i].role # "system"

C3_ReplyTrimmedOrPlaceholder ==
    \A r \in Reqs :
        (Done(r, "send_api") /\ answer[r].kind = "reply") =>
            /\ response[r].status = 200
            /\ response[r].processed_text =
                   IF answer[r].choices = "message" /\ answer[r].content \notin {None, <<>>}
                   THEN Strip(answer[r].content)
                   ELSE NO_VALID_RESPONSE
            /\ response[r].processed_text # <<>>

\* C4: an APIError is answered with its status code (500 when it has none)
\* and an error text naming that code; any other exception is answered with
\* status 500 and the fixed communication-error text; neither response has
\* a processed_text.
C4_ErrorOutcome ==
    \A r \in Reqs :
        Done(r, "send_api") =>
            /\ answer[r].kind = "APIError" =>
                   /\ response[r].status =
                          IF answer[r].status_code = NoStatus THEN 500
                          ELSE answer[r].status_code
                   /\ Len(response[r].error) = 2
                   /\ response[r].error[2] = Str(answer[r].status_code)
                   /\ response[r].processed_text = Absent
            /\ answer[r].kind = "Exception" =>
                   /\ response[r].status = 500
                   /\ response[r].error =
                          <<"An error occurred while communicating with the AI service.">>
                   /\ response[r].processed_text = Absent

C4_Witness ==
    \E r \in Reqs :
        /\ Done(r, "send_api")
        /\ answer[r].kind = "APIError"
        /\ answer[r].status_code = 429
        /\ response[r].status = 429

\* C5: no request of any endpoint makes more than one completion call, and a
\* request that has been answered after a call made exactly one.
C5_AtMostOneCall ==
    \A r \in Reqs :
        /\ calls[r] <= 1
        /\ (pc[r] = "done" /\ answer[r].kind # "none") => calls[r] = 1

\* A failed call has been answered.
C5_Witness ==
    \E r \in Reqs :
        /\ pc[r] = "done"
        /\ answer[r].kind \in {"APIError", "Exception"}
        /\ response[r].status >= 500
        /\ calls[r] = 1

\* The requests C6 lists: body missing or empty, 'messages' list empty, a
\* message lacking 'role' or 'content', 'text' empty after trimming, neither
\* a 'messages' list nor a 'text' field.
LacksKey(msg) == msg.kind = "number" \/ ~HasKey(msg, "role") \/ ~HasKey(msg, "content")

C6_Listed(data) ==
    \/ Falsy(data)
    \/ data.messages_kind = "list" /\ data.messages = <<>>
    \/ data.messages_kind = "list" /\ \E i \in 1..Len(data.messages) : LacksKey(data.messages[i])
    \/ data.text # Absent /\ Strip(data.text) = <<>>
    \/ data.messages_kind # "list" /\ data.text = Absent

C6_Invalid(data) ==
    \/ Falsy(data)
    \/ data.messages_kind = "list" /\ data.messages = <<>>
    \/ data.messages_kind = "list" /\ \E i \in 1..Len(data.messages) : LacksKey(data.messages[i])
    \/ data.messages_kind # "list" /\ data.text # Absent /\ Strip(data.text) = <<>>
    \/ data.messages_kind # "list" /\ data.text = Absent

\* Those answered 400: the body is null, empty or a JSON object, and every
\* message of its list is a JSON object.
C6_WellTyped(data) ==
    /\ data.kind # "number"
    /\ \A i \in 1..Len(data.messages) : data.messages[i].kind = "object"

Parts(resp) ==
    Range(resp.error) \cup Range(resp.message) \cup Range(resp.processed_text)
    \cup Range(resp.feedback) \cup {resp.json}

Failed(r) == pc[r] = "done" /\ answer[r].kind \in {"APIError", "Exception"}

\* C7: two failed calls of the same endpoint with errors of the same kind and
\* status code get the same response whatever the exceptions' texts, and no
\* response of any endpoint carries an exception's text.
C7_NoErrorDetail ==
    /\ \A r \in Reqs : pc[r] = "done" => Parts(response[r]) \cap ErrorTexts = {}
    /\ \A r1, r2 \in Reqs :
           ( /\ Failed(r1) /\ Failed(r2)
             /\ request[r1].endpoint = request[r2].endpoint
             /\ answer[r1].kind = answer[r2].kind
             /\ answer[r1].status_code = answer[r2].status_code )
           => response[r1] = response[r2]

\* Two send_api calls failed with the same status and different texts.
C7_Witness ==
    /\ Failed(1) /\ Failed(2)
    /\ request[1].endpoint = "send_api" /\ request[2].endpoint = "send_api"
    /\ answer[1].kind = "APIError" /\ answer[2].kind = "APIError"
    /\ answer[1].status_code = 429 /\ answer[2].status_code = 429
    /\ answer[1].text # answer[2].text
    /\ request[1].data # request[2].data

\* The frame of a request: everything its handler reads or writes.
Frame(r) == <<request[r], pc[r], messages[r], sent[r], calls[r], answer[r], response[r]>>

\* What a request that has reached the call hands to the backend, from its
\* own body alone.
OwnMessages(req) ==
    CASE req.endpoint = "send_api" -> SendApiMessages(req.data)
      [] req.endpoint = "validate_theme" -> ValidateThemeMessages(req.data)
      [] OTHER -> EndDebateMessages(req.data)

\* C8: under every interleaving of two requests, a step of one handler
\* changes neither the module-level client nor the other request's frame;
\* the list a request hands to the backend is the one built from its own
\* body; and two answered requests with the same body and the same backend
\* answer have the same response.
C8_Isolation ==
    /\ [][ /\ client' = client
           /\ \A r, q \in Reqs : (r # q /\ Frame(r)' # Frame(r)) => Frame(q)' = Frame(q)
         ]_vars
    /\ [](\A r \in Reqs :
             (pc[r] = "call" \/ calls[r] > 0) => messages[r] = OwnMessages(request[r]))
    /\ [](\A r \in Reqs : calls[r] > 0 => sent[r] = OwnMessages(request[r]))
    /\ [](\A r1, r2 \in Reqs :
             ( /\ pc[r1] = "done" /\ pc[r2] = "done"
               /\ request[r1] = request[r2] /\ answer[r1] = answer[r2] )
             => response[r1] = response[r2])

\* Two requests of different endpoints wait for the backend at the same time.
C8_Witness ==
    /\ pc[1] = "answered" /\ pc[2] = "answered"
    /\ request[1].endpoint = "send_api" /\ request[2].endpoint = "end_debate"
    /\ messages[1] # messages[2]

\* C9: the list end_debate hands to the backend is the feedback system prompt
\* followed by every message of the request's 'messages' array, in order.
C9_PromptThenWholeDebate ==
    \A r \in Reqs :
        Called(r, "end_debate") =>
            sent[r] = <<Msg("system", FeedbackSystemPrompt(request[r].data.messages))>>
                      \o request[r].data.messages

\* A backend reply without usable content: no choices, no message, content
\* None, empty or only whitespace.
NoUsableContent(ans) ==
    \/ ans.choices # "message"
    \/ ans.content = None
    \/ Strip(ans.content) = <<>>

\* C10: end_debate answers a reply without usable content with status 200 and
\* the default feedback text.
C10_DefaultFeedback ==
    \A r \in Reqs :
        (Done(r, "end_debate") /\ answer[r].kind = "reply" /\ NoUsableContent(answer[r])) =>
            /\ response[r].status = 200
            /\ response[r].feedback = DEFAULT_FEEDBACK
====
